---- MODULE Spec2Model ----
(***************************************************************************)
(* Read path of the proxyfs jrpc client (read.c): the three read           *)
(* strategies NO_CACHE, SEG_CACHE and FILE_CACHE, the read-plan fetch, the *)
(* IO-plan builder and the batched object GET.  The program is single      *)
(* threaded; one read call at a time runs from dispatch to return.  The    *)
(* metadata service, the object store, the socket pool and the cache       *)
(* service are collaborators: each of their answers is a choice of the     *)
(* environment.                                                            *)
(***************************************************************************)
EXTENDS Integers, Sequences, FiniteSets, TLC

(* ------------------------------ bounds --------------------------------- *)
\* largest request offset tried
MaxOffset == 5
\* largest request length tried
MaxLength == 4
\* number of collaborator failures injected in one run
MaxFaults == 2
\* connections in global_swift_pool
PoolSize == 2
\* pvt->cache_line_size
CacheLineSize == 2
\* records in a payload decoded byte by byte
MaxWireRecords == 2
\* largest requested offset of a payload decoded byte by byte
MaxWireOffset == 1

(* ---------------------------- errno values ----------------------------- *)
ENOENT == 2
EIO == 5
EBADF == 9
ENODEV == 19
EINVAL == 22
EPIPE == 32

\* uint64_t arithmetic is modulo 2^64.  TLC's integers end at 2^31 - 1, so
\* the modulus is scaled down to 2^30: a difference that wraps is, under either
\* modulus, a value above every offset, length and size of the model.
WordModulus == 1073741824

U64(x) == x % WordModulus

Min(a, b) == IF a < b THEN a ELSE b

Max(a, b) == IF a < b THEN b ELSE a

(* ------------------------------ the file ------------------------------- *)
\* the inode read by the calls
Inodes == {1}

\* object paths the metadata service hands out; "" is a hole
PathA == "c/0A"

PathB == "c/0B"

PathC == "c/1C"

\* strtol(basename(path), NULL, 16); basename("") is "." and parses to 0
ObjNum(path) ==
    CASE path = PathA -> 10
      [] path = PathB -> 11
      [] path = PathC -> 28
      [] OTHER -> 0

Rec(p, s, n) == [obj_path |-> p, obj_start |-> s, size |-> n]

\* the files of the runs: each the extent records of the whole file, in
\* logical order, as the metadata service holds them
Layouts ==
    { << Rec(PathA, 0, 2), Rec(PathB, 0, 2) >>,
      << Rec(PathA, 0, 1), Rec("", 0, 2), Rec(PathA, 1, 1) >>,
      << Rec(PathA, 1, 3) >>,
      << Rec(PathA, 0, 1), Rec(PathB, 0, 1), Rec(PathC, 0, 2) >>,
      << Rec(PathA, 0, 1), Rec(PathA, 2, 1), Rec(PathB, 0, 1) >> }

RECURSIVE SumSizes(_)
SumSizes(recs) ==
    IF recs = << >> THEN 0 ELSE Head(recs).size + SumSizes(Tail(recs))

\* the records of recs that overlap the logical window [lo, hi), clipped to
\* it; pos is the logical offset of the first record of recs
RECURSIVE Clip(_, _, _, _)
Clip(recs, pos, lo, hi) ==
    IF recs = << >> THEN << >>
    ELSE LET r == Head(recs)
             a == Max(pos, lo)
             b == Min(pos + r.size, hi)
             rest == Clip(Tail(recs), pos + r.size, lo, hi)
         IN IF a < b
            THEN << Rec(r.obj_path, r.obj_start + (a - pos), b - a) >> \o rest
            ELSE rest

\* the payload the metadata service sends for READPLAN(offset, length):
\* the file size and the records covering the requested window
ServerPlan(layout, offset, length) ==
    [file_size |-> SumSizes(layout),
     records |-> Clip(layout, 0, offset, Min(offset + length, SumSizes(layout)))]

\* one byte of a buffer: byte p of object o; a byte no GET has written is
\* Untouched (caller supplied) or Uninit (fresh malloc)
Byte(o, p) == [o |-> o, p |-> p]

Untouched == Byte("", -1)

Uninit == Byte("?", -1)

(* --------------------------- buf_to_readplan --------------------------- *)
\* The payload is taken here as its header fields and its sequence of
\* records; the byte cursor that delimits the records is not part of these
\* definitions.  The logical offset of each record is rebuilt as the running
\* sum of the sizes of the records before it, from the requested offset.
RECURSIVE DecodeRanges(_, _)
DecodeRanges(records, offset) ==
    IF records = << >> THEN << >>
    ELSE << [obj_path |-> Head(records).obj_path,
             obj_start |-> Head(records).obj_start,
             offset |-> offset,
             size |-> Head(records).size] >>
         \o DecodeRanges(Tail(records), offset + Head(records).size)

ReadPlanOfRecords(payload, offset) ==
    [file_size |-> payload.file_size,
     ranges |-> DecodeRanges(payload.records, offset)]

(* ------------------------ the payload as bytes ------------------------- *)
\* Lines 502-509: three 8-byte fields, then for each record the object
\* path, its terminating NUL, and two 8-byte fields.  Integers are stored
\* low byte first, as on the machines the client is built for.  A path is
\* the sequence of its bytes, none of them 0.
RECURSIVE Bytes(_, _)
Bytes(n, width) ==
    IF width = 0 THEN << >>
    ELSE << n % 256 >> \o Bytes(n \div 256, width - 1)

RECURSIVE EncodeRecords(_)
EncodeRecords(records) ==
    IF records = << >> THEN << >>
    ELSE Head(records).obj_path \o << 0 >>
         \o Bytes(Head(records).obj_start, 8) \o Bytes(Head(records).size, 8)
         \o EncodeRecords(Tail(records))

Encode(payload) ==
    Bytes(payload.file_size, 8) \o Bytes(payload.read_plan_size, 8)
    \o Bytes(Len(payload.records), 8) \o EncodeRecords(payload.records)

\* the value of a byte sequence, low byte first
RECURSIVE LittleEndian(_)
LittleEndian(bytes) ==
    IF bytes = << >> THEN 0 ELSE Head(bytes) + 256 * LittleEndian(Tail(bytes))

\* *((uint64_t *)buf) with buf at index at (from 0) of the payload: the
\* uint64_t as its eight bytes, low byte first
U64At(buf, at) == SubSeq(buf, at + 1, at + 8)

\* a + b of two uint64_t, modulo 2^64
RECURSIVE AddBytes(_, _, _)
AddBytes(a, b, carry) ==
    IF a = << >> THEN << >>
    ELSE << (Head(a) + Head(b) + carry) % 256 >>
         \o AddBytes(Tail(a), Tail(b), (Head(a) + Head(b) + carry) \div 256)

\* int start = *((uint64_t *)buf): the low four bytes, the top bit the sign
IntOfU64At(buf, at) ==
    LittleEndian(SubSeq(buf, at + 1, at + 3))
    + 16777216 * (IF buf[at + 4] >= 128 THEN buf[at + 4] - 256 ELSE buf[at + 4])

\* strlen(buf) with buf at index at
RECURSIVE strlen(_, _)
strlen(buf, at) == IF buf[at + 1] = 0 THEN 0 ELSE 1 + strlen(buf, at + 1)

\* the loop of lines 529-540; cur is buf as an index into the payload,
\* offset and rec_size are uint64_t as bytes.
\* buf += strlen(buf) leaves buf at the path's terminating NUL.
RECURSIVE DecodeLoop(_, _, _, _)
DecodeLoop(buf, cur, count, offset) ==
    IF count = 0 THEN << >>
    ELSE LET at == cur + strlen(buf, cur)
             rec_size == U64At(buf, at + 8)
         IN << [obj_path |-> SubSeq(buf, cur + 1, at),
                obj_start |-> IntOfU64At(buf, at),
                offset |-> offset,
                size |-> rec_size] >>
            \o DecodeLoop(buf, at + 16, count - 1,
                          AddBytes(offset, rec_size, 0))

buf_to_readplan(buf, offset) ==
    [file_size |-> U64At(buf, 0),
     read_plan_size |-> U64At(buf, 8),
     ranges |-> DecodeLoop(buf, 24, LittleEndian(U64At(buf, 16)),
                           Bytes(offset, 8))]

(* ---------------------------- get_read_plan ---------------------------- *)
\* a get_read_plan without the io_size test of line 574
get_read_plan_NoSizeTest(resp, offset, length) ==
    LET none == [ret |-> 0, rpp |-> << >>, sent |-> FALSE,
                 payload_read |-> FALSE, decoded |-> FALSE, panic |-> FALSE]
    IN IF resp.werr # 0
       THEN [none EXCEPT !.ret = resp.werr]
       ELSE IF resp.herr # 0
       THEN [none EXCEPT !.ret = resp.herr, !.sent = TRUE]
       ELSE IF resp.hdr.error # 0
       THEN [none EXCEPT !.ret = resp.hdr.error, !.sent = TRUE]
       ELSE IF resp.perr # 0
       THEN [none EXCEPT !.ret = EBADF, !.sent = TRUE, !.payload_read = TRUE,
                         !.panic = TRUE]
       ELSE [none EXCEPT !.rpp = << [file_size |-> resp.payload.file_size,
                                     ranges |-> << >>] >>,
                         !.sent = TRUE, !.payload_read = TRUE,
                         !.decoded = TRUE]

\* line 582: (err == EPIPE) || (err == ENODEV) || (err = EBADF).  The last
\* disjunct is an assignment: when the first two are false err becomes EBADF
\* and the value of the disjunct is EBADF, which is not 0.
PanicTest(err) ==
    IF err = EPIPE \/ err = ENODEV
    THEN [panic |-> TRUE, err |-> err]
    ELSE [panic |-> EBADF # 0, err |-> EBADF]

\* resp is what the socket does during the call: werr/herr/perr are the
\* results of write_to_socket and of the two read_from_socket calls (0 or a
\* negative errno), hdr the response header, payload the plan sent.
\* The result: ret the return value, rpp the plan stored in *rpp (<< >> for
\* NULL), sent/payload_read/decoded what was done, panic whether PANIC ran.
get_read_plan(resp, offset, length) ==
    LET none == [ret |-> 0, rpp |-> << >>, sent |-> FALSE,
                 payload_read |-> FALSE, decoded |-> FALSE, panic |-> FALSE]
    IN IF resp.werr # 0
       THEN [none EXCEPT !.ret = resp.werr]
       ELSE IF resp.herr # 0
       THEN [none EXCEPT !.ret = resp.herr, !.sent = TRUE]
       ELSE IF resp.hdr.error # 0
       THEN [none EXCEPT !.ret = resp.hdr.error, !.sent = TRUE]
       ELSE IF resp.hdr.io_size = 0
       THEN [none EXCEPT !.ret = EIO, !.sent = TRUE]
       ELSE IF resp.perr # 0
       THEN [none EXCEPT !.ret = PanicTest(-resp.perr).err,
                         !.sent = TRUE, !.payload_read = TRUE,
                         !.panic = PanicTest(-resp.perr).panic]
       ELSE [none EXCEPT !.rpp = << ReadPlanOfRecords(resp.payload, offset) >>,
                         !.sent = TRUE, !.payload_read = TRUE,
                         !.decoded = TRUE]

(* ------------------------- build_read_io_plan -------------------------- *)
\* buf_idx is set once and never advanced
buf_idx == 0

\* logical is not a field of range_t: it records the logical file offset
\* the range stands for
insert_range(obj, start, count, buf, logical) ==
    [obj EXCEPT !.ranges = Append(@, [start |-> start, end |-> start + count,
                                      data |-> buf, data_size |-> count,
                                      logical |-> logical])]

\* a search that compares the head of the list only
ObjIndex_HeadOnly(objs, obj_path) ==
    IF objs # << >> /\ objs[1].obj_path = obj_path THEN 1 ELSE 0

\* the loop of lines 391-397: the first object of the list with the path,
\* 0 when there is none
ObjIndex(objs, obj_path) ==
    LET hits == {k \in 1..Len(objs) : objs[k].obj_path = obj_path}
    IN IF hits = {} THEN 0 ELSE CHOOSE k \in hits : \A j \in hits : k <= j

read_io_plan_rec_add(io, buf, count, obj_start, obj_path, logical) ==
    LET k == ObjIndex(io.objs, obj_path)
        fresh == [obj_path |-> obj_path, obj_num |-> ObjNum(obj_path),
                  fd |-> 0, ranges |-> << >>]
    IN IF k # 0
       THEN [io EXCEPT !.objs[k] =
                insert_range(@, obj_start, count, buf, logical)]
       ELSE [io EXCEPT !.objs =
                << insert_range(fresh, obj_start, count, buf, logical) >> \o @]

ClampCount(rp, offset, length) ==
    IF offset > rp.file_size THEN 0
    ELSE IF offset + length > rp.file_size THEN rp.file_size - offset
    ELSE length

\* a mapping is skipped when it ends before start
SkipMapping(r, start) == r.offset + r.size < start

RECURSIVE BuildWalk(_, _, _, _, _)
BuildWalk(rp, i, count, start, io) ==
    IF ~(i <= Len(rp.ranges) /\ count > 0) THEN io
    ELSE LET r == rp.ranges[i]
         IN IF SkipMapping(r, start)
            THEN BuildWalk(rp, i + 1, count, start, io)
            ELSE LET read_in_rec == r.size + r.offset - start
                     elm_start == r.obj_start + start - r.offset
                     elm_count == IF read_in_rec > count THEN count
                                  ELSE read_in_rec
                 IN BuildWalk(rp, i + 1, count - elm_count, start + elm_count,
                              read_io_plan_rec_add(io, buf_idx, elm_count,
                                                   elm_start, r.obj_path,
                                                   start))

build_read_io_plan(rp, offset, length) ==
    BuildWalk(rp, 1, ClampCount(rp, offset, length), offset,
              [data_size |-> ClampCount(rp, offset, length), objs |-> << >>])

IsHole(obj) == obj.obj_path = ""

(* ------------------------------ buffers -------------------------------- *)
\* n bytes of object path from byte start on
ObjBytes(path, start, n) == [k \in 1..n |-> Byte(path, start + k - 1)]

\* buf with bytes copied to its 0-based index at
WriteAt(buf, at, bytes) ==
    [k \in 1..Len(buf) |->
        IF at < k /\ k <= at + Len(bytes) THEN bytes[k - at] ELSE buf[k]]

\* bcopy(&src[from], &dst[to], n)
BCopy(src, from, dst, to, n) ==
    WriteAt(dst, to, [k \in 1..n |-> src[from + k]])

\* csw_get_response on one object: every range's bytes land at its data
RECURSIVE FillRanges(_, _, _)
FillRanges(buf, path, ranges) ==
    IF ranges = << >> THEN buf
    ELSE FillRanges(WriteAt(buf, Head(ranges).data,
                            ObjBytes(path, Head(ranges).start,
                                     Head(ranges).data_size)),
                    path, Tail(ranges))

(* ------------------------------ get_data ------------------------------- *)
\* The direct single-range GET: csw_sock_get, csw_get_request, on success
\* csw_get_response, then csw_sock_put.  fd is the connection the pool
\* hands out, rerr and perr the results of the request and of the response.
get_data(fd, path, offset, length, rerr, perr) ==
    [err |-> IF rerr # 0 THEN rerr ELSE perr,
     data |-> IF rerr = 0 /\ perr = 0 THEN ObjBytes(path, offset, length)
              ELSE [k \in 1..length |-> Uninit],
     acq |-> << fd >>,
     put |-> << fd >>,
     requested |-> TRUE,
     responded |-> rerr = 0]

(* ------------------------ get_read_io_plan_data ------------------------ *)
\* a done: loop that hands back the head object's connection only
ReleaseAll_HeadOnly(objs) ==
    IF objs = << >> \/ IsHole(objs[1]) THEN << >> ELSE << objs[1].fd >>

\* the connections the done: loop hands back, in list order
RECURSIVE ReleaseAll(_)
ReleaseAll(objs) ==
    IF objs = << >> THEN << >>
    ELSE (IF IsHole(Head(objs)) THEN << >> ELSE << Head(objs).fd >>)
         \o ReleaseAll(Tail(objs))

\* the value get_read_io_plan_data returns: the function-level err of line
\* 419; the err of each loop body is a new variable of that block
FillReturn(outer_err) == -outer_err

SeqToSet(s) == {s[k] : k \in 1..Len(s)}

(* ------------------------------- state --------------------------------- *)
VARIABLES
    layout,        \* the file's extents, fixed for the run
    read_io_type,  \* the configured strategy
    pc,            \* where the running call is
    ret,           \* what proxyfs_read_plan_req returned last
    req,           \* the caller's request
    sub,           \* read_no_cache runs on cache_req (cache_read_plan = true)
    creq,          \* read_file_cache's cache_req
    rp,            \* the read plan in hand, << >> for none
    io,            \* the IO plan in hand, << >> for none
    cache,         \* the cache service's entries
    pool,          \* the free connections of global_swift_pool
    fill,          \* get_read_io_plan_data's locals
    sc,            \* read_seg_cache's loop variables
    fc,            \* read_file_cache's locals
    faults,        \* collaborator failures injected so far
    hist,          \* what the running call has done so far (observation only)
    dec            \* a payload received as bytes and the plan decoded from it

vars == << layout, read_io_type, pc, ret, req, sub, creq, rp, io, cache, pool,
           fill, sc, fc, faults, hist, dec >>

Strategies == {"NO_CACHE", "SEG_CACHE", "FILE_CACHE"}

\* negative errno results of the socket and object-store calls
SockErrs == {-EPIPE, -EIO}

GetErrs == {-EIO}

\* cache-service errors other than ENOENT (12 is ENOMEM)
CacheErrs == {12}

StatErrs == {EIO}

NoReq == [inode_number |-> 1, offset |-> 0, length |-> 0, data |-> << >>,
          error |-> 0, out_size |-> 0]

NoFill == [i |-> 1, err |-> 0]

NoSc == [i |-> 1, idx |-> 1, off |-> 0, buf_off |-> 0]

NoFc == [off |-> 0, end |-> 0, buf_off |-> 0, fill_cnt |-> 0, size |-> 0,
         seg |-> 0]

\* plan, size: the InodeKey and the is_size entries, << >> when absent;
\* lines, segs: the FileSegKey and SegmentKey entries; plan_inserts counts
\* the inserts under the InodeKey (observation only).  Nothing is evicted.
EmptyCache ==
    [plan |-> << >>, size |-> << >>, lines |-> << >>, segs |-> << >>,
     plan_inserts |-> 0]

NoResp ==
    [werr |-> 0, herr |-> 0, hdr |-> [error |-> 0, io_size |-> 24], perr |-> 0,
     payload |-> [file_size |-> 0, records |-> << >>]]

\* plan_reqs: the (offset, length) of each get_read_plan call; gets: the
\* paths a GET request was sent for; conns: the paths a connection was taken
\* for; acq/put: the connections taken from and given back to the pool by
\* the BlobFetcher fill or get_data that ran last; sent/read: the objects of
\* that fill whose request was sent and whose response was read; first_err:
\* the first failure that fill met; fill_ret: what it returned; fills: how
\* many fills returned; get_failures: failed direct GETs; seg_gets: the
\* SegmentKeys fetched by direct GET; fetched: the cache lines FileCache
\* delegated to NoCache; lines_before/plan_before: the cache at call start;
\* freed_cached: free_read_plan ran on a plan held by the cache; live_rp,
\* live_io: plans allocated and not yet released; last_plan: the result of
\* the last get_read_plan, last_resp what the socket did during it;
\* other_faults: failures met other than direct-GET failures;
\* reqs_with_plan: get_read_plan calls made while the cache held the plan;
\* ops: plan fetches, stat calls, GET requests and cache inserts so far;
\* cache_err, cache_err_at, ops_at_err: the cache-service error met, the
\* lookup that met it and the value of ops then; hit_inserts: inserts under
\* a key the cache already held; resolved: the (object, range) pairs of the
\* IO plan in hand that read_seg_cache has copied to their end.
NoHist ==
    [plan_reqs |-> << >>, gets |-> {}, conns |-> {}, acq |-> << >>,
     put |-> << >>, sent |-> {}, read |-> {}, first_err |-> 0,
     fill_ret |-> 0, fills |-> 0, get_failures |-> 0, seg_gets |-> << >>,
     fetched |-> {}, lines_before |-> {}, plan_before |-> FALSE,
     freed_cached |-> FALSE, live_rp |-> 0, live_io |-> 0,
     other_faults |-> 0, reqs_with_plan |-> 0, ops |-> 0, cache_err |-> 0,
     cache_err_at |-> "", ops_at_err |-> 0, hit_inserts |-> 0,
     resolved |-> << >>,
     last_resp |-> NoResp,
     last_plan |-> [ret |-> 0, rpp |-> << >>, sent |-> FALSE,
                    payload_read |-> FALSE, decoded |-> FALSE,
                    panic |-> FALSE]]

\* payload: what the metadata service encoded; read_plan_buf: the bytes
\* received; offset: the requested offset; rp: the decoded plan, << >> before
\* the decoding
NoDec ==
    [payload |-> [file_size |-> 0, read_plan_size |-> 0, records |-> << >>],
     read_plan_buf |-> << >>, offset |-> 0, rp |-> << >>]

\* cache_get returned e, an error other than ENOENT, at lookup at
CacheFault(h, e, at) ==
    [h EXCEPT !.cache_err = e, !.cache_err_at = at, !.ops_at_err = h.ops]

Init ==
    /\ layout \in Layouts
    /\ read_io_type \in Strategies
    /\ pc = "idle"
    /\ ret = 0
    /\ req = NoReq
    /\ sub = FALSE
    /\ creq = NoReq
    /\ rp = << >>
    /\ io = << >>
    /\ cache = EmptyCache
    /\ pool = 1..PoolSize
    /\ fill = NoFill
    /\ sc = NoSc
    /\ fc = NoFc
    /\ faults = 0
    /\ hist = NoHist
    /\ dec = NoDec

FileSize == SumSizes(layout)

CanFail == faults < MaxFaults

\* the answers the metadata connection can give to one READPLAN request
Responses(offset, length) ==
    LET payload == ServerPlan(layout, offset, length)
        good == [werr |-> 0, herr |-> 0,
                 hdr |-> [error |-> 0,
                          io_size |-> 24 + 17 * Len(payload.records)],
                 perr |-> 0, payload |-> payload]
    IN {good}
       \cup (IF CanFail
             THEN {[good EXCEPT !.werr = e] : e \in SockErrs}
                  \cup {[good EXCEPT !.herr = e] : e \in SockErrs}
                  \cup {[good EXCEPT !.hdr.error = ENOENT]}
                  \cup {[good EXCEPT !.hdr.io_size = 0]}
                  \cup {[good EXCEPT !.perr = e] : e \in SockErrs}
             ELSE {})

IsFault(resp) ==
    \/ resp.werr # 0
    \/ resp.herr # 0
    \/ resp.hdr.error # 0
    \/ resp.hdr.io_size = 0
    \/ resp.perr # 0

(* ------------------------ proxyfs_read_plan_req ------------------------ *)
Idle == pc \in {"idle", "returned"}

\* the call returns r to its caller
Return(r) == pc' = "returned" /\ ret' = r

\* the pc a strategy starts at
EntryPc(type) ==
    CASE type = "NO_CACHE" -> "nc_fetch"
      [] type = "SEG_CACHE" -> "sc_fetch"
      [] type = "FILE_CACHE" -> "fc_size"

\* a request with a NULL mount handle or buffer is refused before any I/O
read_req_invalid ==
    /\ Idle
    /\ Return(EINVAL)
    /\ UNCHANGED << dec, layout, read_io_type, req, sub, creq, rp, io, cache, pool,
                    fill, sc, fc, faults, hist >>

proxyfs_read_plan_req(offset, length) ==
    /\ Idle
    /\ req' = [NoReq EXCEPT !.offset = offset, !.length = length,
                            !.data = [k \in 1..length |-> Untouched]]
    /\ hist' = [NoHist EXCEPT !.lines_before = DOMAIN cache.lines,
                              !.plan_before = (cache.plan # << >>)]
    /\ sub' = FALSE
    /\ creq' = NoReq
    /\ rp' = << >>
    /\ io' = << >>
    /\ fill' = NoFill
    /\ sc' = NoSc
    /\ fc' = NoFc
    /\ pc' = EntryPc(read_io_type)
    /\ UNCHANGED << dec, layout, read_io_type, ret, cache, pool, faults >>

(* ---------------------------- read_no_cache ---------------------------- *)
\* the request read_no_cache works on
Cur == IF sub THEN creq ELSE req

PutCur(v) ==
    IF sub THEN creq' = v /\ req' = req ELSE req' = v /\ creq' = creq

\* read_no_cache returns 0: to read_file_cache, or to the caller
NcReturn ==
    IF sub THEN pc' = "fc_after_sub" /\ ret' = ret ELSE Return(0)

\* the length of the plan read_no_cache asks for when it caches the plan:
\* its size parameter, for which read_file_cache passes end
WholeFilePlanLength == fc.end

\* free_read_plan(rp) runs unless the plan is the cached one
FreesPlan(cache_read_plan) == ~cache_read_plan

\* a lookup under the InodeKey that never finds the plan
PlanLookupHit_Never == FALSE

\* cache_get under the InodeKey finds the plan
PlanLookupHit == cache.plan # << >>

nc_plan_lookup ==
    /\ pc = "nc_lookup"
    /\ sub
    /\ \/ /\ PlanLookupHit
          /\ rp' = cache.plan
          /\ pc' = "nc_build"
          /\ UNCHANGED << creq, faults, ret, hist >>
       \/ /\ ~PlanLookupHit
          /\ pc' = "nc_fetch"
          /\ UNCHANGED << creq, rp, faults, ret, hist >>
       \/ /\ CanFail
          /\ \E e \in CacheErrs :
               /\ creq' = [creq EXCEPT !.error = e]
               /\ hist' = CacheFault(hist, e, "plan")
          /\ faults' = faults + 1
          /\ NcReturn
          /\ UNCHANGED rp
    /\ UNCHANGED << dec, layout, read_io_type, req, sub, io, cache, pool, fill, sc,
                    fc >>

nc_get_read_plan ==
    /\ pc = "nc_fetch"
    /\ LET offset == IF sub THEN 0 ELSE req.offset
           length == IF sub THEN WholeFilePlanLength ELSE req.length
       IN \E resp \in Responses(offset, length) :
            LET r == get_read_plan(resp, offset, length)
            IN /\ faults' = IF IsFault(resp) THEN faults + 1 ELSE faults
               /\ hist' = [hist EXCEPT
                             !.plan_reqs = Append(@, << offset, length >>),
                             !.last_plan = r,
                             !.last_resp = resp,
                             !.reqs_with_plan =
                                 IF cache.plan # << >> THEN @ + 1 ELSE @,
                             !.other_faults =
                                 IF IsFault(resp) THEN @ + 1 ELSE @,
                             !.ops = IF sub /\ ~r.panic /\ r.ret = 0
                                     THEN @ + 2 ELSE @ + 1,
                             !.hit_inserts =
                                 IF sub /\ ~r.panic /\ r.ret = 0
                                    /\ cache.plan # << >>
                                 THEN @ + 1 ELSE @,
                             !.live_rp = @ + Len(r.rpp)]
               /\ IF r.panic
                  THEN /\ pc' = "aborted"
                       /\ UNCHANGED << ret, req, creq, rp, cache >>
                  ELSE IF r.ret # 0
                  THEN /\ PutCur([Cur EXCEPT !.error = r.ret])
                       /\ NcReturn
                       /\ UNCHANGED << rp, cache >>
                  ELSE /\ rp' = r.rpp
                       /\ cache' = IF sub
                                   THEN [cache EXCEPT !.plan = r.rpp,
                                                      !.plan_inserts = @ + 1]
                                   ELSE cache
                       /\ pc' = "nc_build"
                       /\ UNCHANGED << ret, req, creq >>
    /\ UNCHANGED << dec, layout, read_io_type, sub, io, pool, fill, sc, fc >>

nc_build ==
    /\ pc = "nc_build"
    /\ io' = << build_read_io_plan(rp[1], Cur.offset, Cur.length) >>
    /\ rp' = << >>
    /\ hist' = [hist EXCEPT
                  !.live_rp = IF FreesPlan(sub) THEN @ - 1 ELSE @,
                  !.freed_cached = @ \/ (sub /\ FreesPlan(sub)),
                  !.live_io = @ + 1,
                  !.acq = << >>, !.put = << >>, !.sent = {}, !.read = {},
                  !.first_err = 0]
    /\ fill' = NoFill
    /\ pc' = "fill_acquire"
    /\ UNCHANGED << dec, layout, read_io_type, ret, req, sub, creq, cache, pool, sc,
                    fc, faults >>

(* ------------------------ get_read_io_plan_data ------------------------ *)
\* what the function-level err holds after a loop body got the result e:
\* the body's "int err = ..." declares its own variable
OuterErrAfter(outer_err, e) == outer_err

fill_acquire ==
    /\ pc = "fill_acquire"
    /\ LET objs == io[1].objs
       IN IF fill.i > Len(objs)
          THEN /\ pc' = "fill_request"
               /\ fill' = [fill EXCEPT !.i = 1]
               /\ UNCHANGED << io, pool, hist >>
          ELSE IF IsHole(objs[fill.i])
          THEN /\ fill' = [fill EXCEPT !.i = @ + 1]
               /\ UNCHANGED << pc, io, pool, hist >>
          ELSE \E fd \in pool :
                 /\ io' = [io EXCEPT ![1].objs[fill.i].fd = fd]
                 /\ pool' = pool \ {fd}
                 /\ hist' = [hist EXCEPT
                               !.acq = Append(@, fd),
                               !.conns = @ \cup {objs[fill.i].obj_path}]
                 /\ fill' = [fill EXCEPT !.i = @ + 1]
                 /\ UNCHANGED pc
    /\ UNCHANGED << dec, layout, read_io_type, ret, req, sub, creq, rp, cache, sc,
                    fc, faults >>

fill_request ==
    /\ pc = "fill_request"
    /\ LET objs == io[1].objs
       IN IF fill.i > Len(objs)
          THEN /\ pc' = "fill_response"
               /\ fill' = [fill EXCEPT !.i = 1]
               /\ UNCHANGED << faults, hist >>
          ELSE IF IsHole(objs[fill.i])
          THEN /\ fill' = [fill EXCEPT !.i = @ + 1]
               /\ UNCHANGED << pc, faults, hist >>
          ELSE \/ /\ hist' = [hist EXCEPT
                                !.sent = @ \cup {fill.i},
                                !.ops = @ + 1,
                                !.gets = @ \cup {objs[fill.i].obj_path}]
                  /\ fill' = [fill EXCEPT !.i = @ + 1]
                  /\ UNCHANGED << pc, faults >>
               \/ /\ CanFail
                  /\ \E e \in GetErrs :
                       /\ fill' = [fill EXCEPT !.err = OuterErrAfter(@, e)]
                       /\ hist' = [hist EXCEPT
                                     !.first_err = e,
                                     !.ops = @ + 1,
                                     !.gets = @ \cup {objs[fill.i].obj_path}]
                  /\ faults' = faults + 1
                  /\ pc' = "fill_done"
    /\ UNCHANGED << dec, layout, read_io_type, ret, req, sub, creq, rp, io, cache,
                    pool, sc, fc >>

fill_response ==
    /\ pc = "fill_response"
    /\ LET objs == io[1].objs
       IN IF fill.i > Len(objs)
          THEN /\ pc' = "fill_done"
               /\ UNCHANGED << fill, faults, hist, req, creq >>
          ELSE IF IsHole(objs[fill.i])
          THEN /\ fill' = [fill EXCEPT !.i = @ + 1]
               /\ UNCHANGED << pc, faults, hist, req, creq >>
          ELSE \/ /\ PutCur([Cur EXCEPT !.data =
                               FillRanges(@, objs[fill.i].obj_path,
                                          objs[fill.i].ranges)])
                  /\ hist' = [hist EXCEPT !.read = @ \cup {fill.i}]
                  /\ fill' = [fill EXCEPT !.i = @ + 1]
                  /\ UNCHANGED << pc, faults >>
               \/ /\ CanFail
                  /\ \E e \in GetErrs :
                       /\ fill' = [fill EXCEPT !.err = OuterErrAfter(@, e)]
                       /\ hist' = [hist EXCEPT !.first_err = e]
                  /\ faults' = faults + 1
                  /\ pc' = "fill_done"
                  /\ UNCHANGED << req, creq >>
    /\ UNCHANGED << dec, layout, read_io_type, ret, sub, rp, io, cache, pool, sc,
                    fc >>

\* the done: loop, and the return
fill_done ==
    /\ pc = "fill_done"
    /\ pool' = pool \cup SeqToSet(ReleaseAll(io[1].objs))
    /\ hist' = [hist EXCEPT !.put = ReleaseAll(io[1].objs),
                            !.fill_ret = FillReturn(fill.err),
                            !.fills = 1]
    /\ pc' = "nc_finish"
    /\ UNCHANGED << dec, layout, read_io_type, ret, req, sub, creq, rp, io, cache,
                    fill, sc, fc, faults >>

\* read_no_cache after get_read_io_plan_data returned
nc_finish ==
    /\ pc = "nc_finish"
    /\ PutCur([Cur EXCEPT !.out_size = io[1].data_size,
                          !.error = hist.fill_ret])
    /\ io' = << >>
    /\ hist' = [hist EXCEPT !.live_io = @ - 1]
    /\ NcReturn
    /\ UNCHANGED << dec, layout, read_io_type, sub, rp, cache, pool, fill, sc, fc,
                    faults >>

(* --------------------------- read_seg_cache ---------------------------- *)
\* The loops of lines 174-185 up to the next loop body.  The objects are
\* read as io_plan->objs[i], an array index into what is a linked list:
\* objs[0] is the list head, objs[i] for i >= 1 is memory past that node.
\* Here i and idx count from 1.
RECURSIVE ScSeek(_, _, _)
ScSeek(objs, i, idx) ==
    IF i > Len(objs)
    THEN [pc |-> "sc_done", i |-> i, idx |-> idx, off |-> 0, buf_off |-> 0]
    ELSE IF i > 1
    THEN [pc |-> "sc_ub", i |-> i, idx |-> idx, off |-> 0, buf_off |-> 0]
    ELSE IF idx > Len(objs[i].ranges)
    THEN ScSeek(objs, i + 1, 1)
    ELSE IF objs[i].ranges[idx].start < objs[i].ranges[idx].end
    THEN [pc |-> "sc_seg", i |-> i, idx |-> idx,
          off |-> objs[i].ranges[idx].start, buf_off |-> 0]
    ELSE ScSeek(objs, i, idx + 1)

ScGoto(pos) ==
    /\ pc' = pos.pc
    /\ sc' = [i |-> pos.i, idx |-> pos.idx, off |-> pos.off,
              buf_off |-> pos.buf_off]

\* a segment number rounded up instead of down
SegOf_RoundUp(off) == (off + CacheLineSize - 1) \div CacheLineSize

\* seg = off / pvt->cache_line_size
SegOf(off) == off \div CacheLineSize

\* fill_cnt of lines 210-213 and 294-298
FillCnt(off, end) ==
    LET whole == CacheLineSize - (off % CacheLineSize)
    IN IF whole > end - off THEN end - off ELSE whole

ScObj == io[1].objs[sc.i]

ScRange == ScObj.ranges[sc.idx]

ScKey == << SegOf(sc.off), ScObj.obj_num >>

\* lines 210-215 and the loop increment, with data the cache line in hand
ScCopy(data) ==
    LET n == FillCnt(sc.off, ScRange.end)
    IN /\ req' = [req EXCEPT !.data =
                     BCopy(data, sc.off % CacheLineSize, @,
                           ScRange.data + sc.buf_off, n)]
       /\ IF sc.off + n < ScRange.end
          THEN /\ sc' = [sc EXCEPT !.off = @ + n, !.buf_off = @ + n]
               /\ pc' = "sc_seg"
          ELSE ScGoto(ScSeek(io[1].objs, sc.i, sc.idx + 1))

\* h after the copy of lines 210-215: the range is done when off reaches
\* its end
ScResolved(h) ==
    IF sc.off + FillCnt(sc.off, ScRange.end) < ScRange.end THEN h
    ELSE [h EXCEPT !.resolved = Append(@, << sc.i, sc.idx >>)]

sc_get_read_plan ==
    /\ pc = "sc_fetch"
    /\ \E resp \in Responses(req.offset, req.length) :
         LET r == get_read_plan(resp, req.offset, req.length)
         IN /\ faults' = IF IsFault(resp) THEN faults + 1 ELSE faults
            /\ hist' = [hist EXCEPT
                          !.plan_reqs = Append(@, << req.offset, req.length >>),
                          !.last_plan = r,
                          !.last_resp = resp,
                          !.other_faults = IF IsFault(resp) THEN @ + 1 ELSE @,
                          !.ops = @ + 1,
                          !.live_rp = @ + Len(r.rpp)]
            /\ IF r.panic
               THEN /\ pc' = "aborted"
                    /\ UNCHANGED << ret, req, rp >>
               ELSE IF r.ret # 0
               THEN /\ req' = [req EXCEPT !.error = r.ret]
                    /\ Return(0)
                    /\ UNCHANGED rp
               ELSE /\ rp' = r.rpp
                    /\ pc' = "sc_build"
                    /\ UNCHANGED << ret, req >>
    /\ UNCHANGED << dec, layout, read_io_type, sub, creq, io, cache, pool, fill, sc,
                    fc >>

sc_build ==
    /\ pc = "sc_build"
    /\ io' = << build_read_io_plan(rp[1], req.offset, req.length) >>
    /\ rp' = << >>
    /\ hist' = [hist EXCEPT !.live_rp = @ - 1, !.live_io = @ + 1,
                            !.resolved = << >>]
    /\ ScGoto(ScSeek(io'[1].objs, 1, 1))
    /\ UNCHANGED << dec, layout, read_io_type, ret, req, sub, creq, cache, pool,
                    fill, fc, faults >>

sc_seg_lookup ==
    /\ pc = "sc_seg"
    /\ \/ /\ ScKey \in DOMAIN cache.segs
          /\ ScCopy(cache.segs[ScKey])
          /\ hist' = ScResolved(hist)
          /\ UNCHANGED << ret, io, faults >>
       \/ /\ ScKey \notin DOMAIN cache.segs
          /\ pc' = "sc_get"
          /\ UNCHANGED << ret, req, io, sc, faults, hist >>
       \/ /\ CanFail
          /\ \E e \in CacheErrs :
               /\ req' = [req EXCEPT !.error = e]
               /\ hist' = [CacheFault(hist, e, "segment") EXCEPT
                             !.live_io = @ - 1, !.other_faults = @ + 1]
          /\ io' = << >>
          /\ faults' = faults + 1
          /\ Return(0)
          /\ UNCHANGED sc
    /\ UNCHANGED << dec, layout, read_io_type, sub, creq, rp, cache, pool, fill, fc >>

\* a test that takes every direct GET as a success
GetFailed_Never(err) == FALSE

\* line 201
GetFailed(err) == err # 0

sc_get_data ==
    /\ pc = "sc_get"
    /\ \E fd \in pool :
       \E rerr \in {0} \cup (IF CanFail THEN GetErrs ELSE {}) :
       \E perr \in {0} \cup (IF CanFail /\ rerr = 0 THEN GetErrs ELSE {}) :
         LET g == get_data(fd, ScObj.obj_path, SegOf(sc.off) * CacheLineSize,
                           CacheLineSize, rerr, perr)
             seen == [hist EXCEPT
                        !.acq = g.acq, !.put = g.put,
                        !.ops = @ + 1,
                        !.get_failures = IF g.err # 0 THEN @ + 1 ELSE @,
                        !.conns = @ \cup {ScObj.obj_path},
                        !.gets = @ \cup {ScObj.obj_path}]
         IN /\ pool' = (pool \ SeqToSet(g.acq)) \cup SeqToSet(g.put)
            /\ IF GetFailed(g.err)
               THEN \* goto retry
                    /\ io' = << >>
                    /\ hist' = [seen EXCEPT !.live_io = @ - 1]
                    /\ faults' = faults + 1
                    /\ pc' = "sc_fetch"
                    /\ UNCHANGED << req, sc, cache >>
               ELSE /\ cache' = [cache EXCEPT !.segs = (ScKey :> g.data) @@ @]
                    /\ hist' = [ScResolved(seen) EXCEPT
                                  !.seg_gets = Append(@, ScKey),
                                  !.ops = @ + 1,
                                  !.hit_inserts =
                                      IF ScKey \in DOMAIN cache.segs
                                      THEN @ + 1 ELSE @]
                    /\ ScCopy(g.data)
                    /\ UNCHANGED << io, faults >>
    /\ UNCHANGED << dec, layout, read_io_type, ret, sub, creq, rp, fill, fc >>

\* &io_plan->objs[i] for i >= 1 reads past the head node: the read faults,
\* or yields a node whose range_count is not positive
sc_ub ==
    /\ pc = "sc_ub"
    /\ \/ /\ pc' = "crashed"
          /\ UNCHANGED sc
       \/ IF sc.i + 1 > Len(io[1].objs)
          THEN pc' = "sc_done" /\ sc' = [sc EXCEPT !.i = @ + 1]
          ELSE pc' = "sc_ub" /\ sc' = [sc EXCEPT !.i = @ + 1]
    /\ UNCHANGED << dec, layout, read_io_type, ret, req, sub, creq, rp, io, cache,
                    pool, fill, fc, faults, hist >>

\* lines 220-222: the IO plan is not released here
sc_finish ==
    /\ pc = "sc_done"
    /\ req' = [req EXCEPT !.error = 0, !.out_size = io[1].data_size]
    /\ io' = << >>
    /\ Return(0)
    /\ UNCHANGED << dec, layout, read_io_type, sub, creq, rp, cache, pool, fill, sc,
                    fc, faults, hist >>

(* --------------------------- read_file_cache --------------------------- *)
\* lines 259-262 and 287-289 once size is known.  cache_get stores a
\* pointer-sized value through &size, an int; size is taken as its low half.
FcEnter(size) ==
    [off |-> req.offset,
     end |-> IF req.offset + req.length > size THEN size
             ELSE req.offset + req.length,
     buf_off |-> 0, fill_cnt |-> 0, size |-> size, seg |-> 0]

\* line 333
FcOutSize(end, offset) == U64(end - offset)

\* line 329 and the loop increment, with data the cache line in hand
FcCopy(data, n) ==
    /\ req' = [req EXCEPT !.data =
                  BCopy(data, fc.off % CacheLineSize, @, fc.buf_off, n)]
    /\ fc' = [fc EXCEPT !.off = @ + n, !.buf_off = @ + n, !.fill_cnt = n,
                        !.seg = SegOf(fc.off)]

fc_size_lookup ==
    /\ pc = "fc_size"
    /\ \/ /\ cache.size # << >>
          /\ fc' = FcEnter(cache.size[1])
          /\ pc' = "fc_loop"
          /\ UNCHANGED << ret, req, faults, hist >>
       \/ /\ cache.size = << >>
          /\ pc' = "fc_stat"
          /\ UNCHANGED << ret, req, fc, faults, hist >>
       \/ /\ CanFail
          /\ \E e \in CacheErrs :
               /\ req' = [req EXCEPT !.error = e]
               /\ hist' = CacheFault(hist, e, "size")
          /\ faults' = faults + 1
          /\ Return(0)
          /\ UNCHANGED fc
    /\ UNCHANGED << dec, layout, read_io_type, sub, creq, rp, io, cache, pool, fill,
                    sc >>

fc_stat ==
    /\ pc = "fc_stat"
    /\ \/ /\ cache' = [cache EXCEPT !.size = << FileSize >>]
          /\ fc' = FcEnter(FileSize)
          /\ hist' = [hist EXCEPT
                        !.ops = @ + 2,
                        !.hit_inserts = IF cache.size # << >> THEN @ + 1 ELSE @]
          /\ pc' = "fc_loop"
          /\ UNCHANGED << ret, req, faults >>
       \/ /\ CanFail
          /\ \E e \in StatErrs : req' = [req EXCEPT !.error = e]
          /\ hist' = [hist EXCEPT !.ops = @ + 1]
          /\ faults' = faults + 1
          /\ Return(0)
          /\ UNCHANGED << cache, fc >>
    /\ UNCHANGED << dec, layout, read_io_type, sub, creq, rp, io, pool, fill, sc >>

fc_line_lookup ==
    /\ pc = "fc_loop"
    /\ fc.off < fc.end
    /\ LET n == FillCnt(fc.off, fc.end)
           seg == SegOf(fc.off)
       IN \/ /\ seg \in DOMAIN cache.lines
             /\ FcCopy(cache.lines[seg], n)
             /\ UNCHANGED << pc, ret, sub, creq, faults, hist >>
          \/ /\ seg \notin DOMAIN cache.lines
             /\ creq' = [req EXCEPT !.offset = seg * CacheLineSize,
                                    !.length = CacheLineSize,
                                    !.data = [k \in 1..CacheLineSize |-> Uninit]]
             /\ sub' = TRUE
             /\ fc' = [fc EXCEPT !.fill_cnt = n, !.seg = seg]
             /\ hist' = [hist EXCEPT !.fetched = @ \cup {seg}]
             /\ pc' = "nc_lookup"
             /\ UNCHANGED << ret, req, faults >>
          \/ /\ CanFail
             /\ \E e \in CacheErrs :
                  /\ req' = [req EXCEPT !.error = e]
                  /\ hist' = CacheFault(hist, e, "line")
             /\ faults' = faults + 1
             /\ Return(0)
             /\ UNCHANGED << sub, creq, fc >>
    /\ UNCHANGED << dec, layout, read_io_type, rp, io, cache, pool, fill, sc >>

\* a test of the sub-request that looks at the return value only
SubFailed_ReturnValueOnly(err, cache_req_error) == err # 0

\* line 319: err is what read_no_cache returned, which is always 0
SubFailed(err, cache_req_error) == err # 0 \/ cache_req_error # 0

\* lines 319-329 after read_no_cache(&cache_req, sock_fd, true, end) returned
fc_after_sub ==
    /\ pc = "fc_after_sub"
    /\ sub' = FALSE
    /\ IF SubFailed(0, creq.error)
       THEN /\ req' = [req EXCEPT !.error = creq.error]
            /\ Return(0)
            /\ UNCHANGED << cache, fc, hist >>
       ELSE /\ cache' = [cache EXCEPT !.lines = (fc.seg :> creq.data) @@ @]
            /\ hist' = [hist EXCEPT
                          !.ops = @ + 1,
                          !.hit_inserts =
                              IF fc.seg \in DOMAIN cache.lines
                              THEN @ + 1 ELSE @]
            /\ FcCopy(creq.data, fc.fill_cnt)
            /\ pc' = "fc_loop"
            /\ UNCHANGED ret
    /\ UNCHANGED << dec, layout, read_io_type, creq, rp, io, pool, fill, sc, faults >>

fc_finish ==
    /\ pc = "fc_loop"
    /\ ~(fc.off < fc.end)
    /\ req' = [req EXCEPT !.error = 0,
                          !.out_size = FcOutSize(fc.end, req.offset)]
    /\ Return(0)
    /\ UNCHANGED << dec, layout, read_io_type, sub, creq, rp, io, cache, pool, fill,
                    sc, fc, faults, hist >>

(* ---------------------------- specification ---------------------------- *)
Next ==
    \/ read_req_invalid
    \/ \E offset \in 0..MaxOffset, length \in 1..MaxLength :
         proxyfs_read_plan_req(offset, length)
    \/ nc_plan_lookup
    \/ nc_get_read_plan
    \/ nc_build
    \/ fill_acquire
    \/ fill_request
    \/ fill_response
    \/ fill_done
    \/ nc_finish
    \/ sc_get_read_plan
    \/ sc_build
    \/ sc_seg_lookup
    \/ sc_get_data
    \/ sc_ub
    \/ sc_finish
    \/ fc_size_lookup
    \/ fc_stat
    \/ fc_line_lookup
    \/ fc_after_sub
    \/ fc_finish

Spec == Init /\ [][Next]_vars

(* ----------------------- a call runs to its end ------------------------ *)
\* The NO_CACHE strategy alone, with the one thread of the program always
\* taking its next step when it has one: csw_sock_get on an empty pool is
\* not a step, the caller waits in it for a connection to be given back.
CallStep ==
    \/ nc_get_read_plan
    \/ nc_build
    \/ fill_acquire
    \/ fill_request
    \/ fill_response
    \/ fill_done
    \/ nc_finish

InitLive ==
    /\ Init
    /\ read_io_type = "NO_CACHE"

NextLive ==
    \/ \E offset \in 0..MaxOffset, length \in 1..MaxLength :
         proxyfs_read_plan_req(offset, length)
    \/ CallStep

SpecLive == InitLive /\ [][NextLive]_vars /\ WF_vars(CallStep)

(* ------------------------- decoding a payload -------------------------- *)
\* Payloads of up to MaxWireRecords records, as bytes, and their decoding.
WirePaths == {<< >>, << 97 >>, << 99, 47, 48, 65 >>}

WireStarts == {0, 1, 300}

WireSizes == {1, 2}

WireRecords ==
    {Rec(p, s, n) : p \in WirePaths, s \in WireStarts, n \in WireSizes}

RECURSIVE SeqsUpTo(_, _)
SeqsUpTo(S, n) ==
    IF n = 0 THEN {<< >>}
    ELSE LET shorter == SeqsUpTo(S, n - 1)
         IN shorter \cup {Append(q, x) : q \in shorter, x \in S}

WirePayloads ==
    {[file_size |-> 4, read_plan_size |-> SumSizes(records),
      records |-> records] : records \in SeqsUpTo(WireRecords, MaxWireRecords)}

\* read_from_socket filled read_plan_buf with the payload the metadata
\* service encoded for a request at offset
decode_receive(payload, offset) ==
    /\ pc = "idle"
    /\ dec.read_plan_buf = << >>
    /\ dec' = [payload |-> payload, read_plan_buf |-> Encode(payload),
               offset |-> offset, rp |-> << >>]
    /\ UNCHANGED << layout, read_io_type, pc, ret, req, sub, creq, rp, io,
                    cache, pool, fill, sc, fc, faults, hist >>

\* line 591
decode_buf_to_readplan ==
    /\ pc = "idle"
    /\ dec.read_plan_buf # << >>
    /\ dec.rp = << >>
    /\ dec' = [dec EXCEPT !.rp = << buf_to_readplan(dec.read_plan_buf,
                                                    dec.offset) >>]
    /\ UNCHANGED << layout, read_io_type, pc, ret, req, sub, creq, rp, io,
                    cache, pool, fill, sc, fc, faults, hist >>

InitDecode ==
    /\ Init
    /\ layout = << Rec(PathA, 1, 3) >>
    /\ read_io_type = "NO_CACHE"

NextDecode ==
    \/ \E payload \in WirePayloads, offset \in 0..MaxWireOffset :
         decode_receive(payload, offset)
    \/ decode_buf_to_readplan

SpecDecode == InitDecode /\ [][NextDecode]_vars

(* ------------------------------- claims -------------------------------- *)
Returned == pc = "returned" /\ ret = 0

InFill == pc \in {"fill_acquire", "fill_request", "fill_response", "fill_done"}

NoDup(q) == \A a, b \in 1..Len(q) : q[a] = q[b] => a = b

\* every range of every object of the IO plan in hand
AllRanges ==
    IF io = << >> THEN {}
    ELSE UNION {SeqToSet(io[1].objs[k].ranges) : k \in 1..Len(io[1].objs)}

\* the object path the file's extents give for logical byte pos
RECURSIVE PathAt(_, _)
PathAt(recs, pos) ==
    IF recs = << >> THEN "none"
    ELSE IF pos < Head(recs).size THEN Head(recs).obj_path
    ELSE PathAt(Tail(recs), pos - Head(recs).size)

\* the cache lines that overlap the request window clamped to the file size
WindowSegs ==
    {k \div CacheLineSize :
        k \in req.offset..(Min(req.offset + req.length, FileSize) - 1)}

\* C1: in every IO plan built, the range standing for logical bytes
\* [s, s+n) has its destination at index s - requested_offset of the caller
\* buffer, so no two ranges of positive length write the same position.
C1_DestinationAtLogicalOffset ==
    \A r \in AllRanges :
        /\ r.data = r.logical - Cur.offset
        /\ \A q \in AllRanges :
               (q # r /\ r.data_size > 0 /\ q.data_size > 0)
               => (r.data + r.data_size <= q.data \/ q.data + q.data_size <= r.data)

\* C2: a call that reports no error has 0 <= out_size, out_size at most
\* max(0, file_size - offset) and at most the requested length.
C2_BytesFilledBounds ==
    (Returned /\ req.error = 0)
    => /\ 0 <= req.out_size
       /\ req.out_size <= Max(0, FileSize - req.offset)
       /\ req.out_size <= req.length

\* C3: no connection is taken and no GET is sent for a hole (the empty
\* object path), and when the call returns the bytes of the caller buffer
\* that stand for a hole are as the caller supplied them.
C3_HoleNeverFetched ==
    /\ "" \notin hist.conns
    /\ "" \notin hist.gets
    /\ Returned =>
         \A k \in 1..Len(req.data) :
             PathAt(layout, req.offset + k - 1) = "" => req.data[k] = Untouched

\* C4: when a request or a response read failed during the fill, the fill
\* returns that first error, a non-zero value, and read_no_cache stores it
\* in the request's error field; the fill returns 0 only when nothing failed.
C4_FillReturnsFirstError ==
    /\ pc = "nc_finish" => (hist.fill_ret # 0 <=> hist.first_err # 0)
    /\ (pc = "nc_finish" /\ hist.first_err # 0)
         => hist.fill_ret \in {hist.first_err, -hist.first_err}
    /\ (Returned /\ read_io_type = "NO_CACHE" /\ hist.first_err # 0)
         => req.error # 0

\* C5: outside the fill no connection is held: the connections the fill (or
\* get_data) took are the connections it gave back, each once, whether it
\* ended in success or in a failure; the fill takes one connection for each
\* object that is not a hole and none for a hole.
C5_ConnectionsReleasedOnce ==
    /\ NoDup(hist.acq)
    /\ NoDup(hist.put)
    /\ ~InFill => (pool = 1..PoolSize /\ hist.put = hist.acq)
    /\ InFill => (hist.put = << >> /\ pool = (1..PoolSize) \ SeqToSet(hist.acq))
    /\ pc = "nc_finish" =>
         Len(hist.put) =
             Cardinality({k \in 1..Len(io[1].objs) : ~IsHole(io[1].objs[k])})

\* a fill of two objects ended by a failure has given both connections back
C5_Witness ==
    /\ pc = "nc_finish"
    /\ hist.first_err # 0
    /\ Len(hist.put) = 2
    /\ pool = 1..PoolSize

\* a direct GET that failed has given its connection back
C5_WitnessGetData ==
    /\ read_io_type = "SEG_CACHE"
    /\ hist.get_failures = 1
    /\ Len(hist.put) = 1
    /\ pool = 1..PoolSize

\* the call has ended: it returned, PANIC ended the process, or the process
\* faulted
Ended == pc \in {"returned", "aborted", "crashed"}

\* C6: a SegmentCache call in which exactly one direct GET failed and
\* nothing else did ends by returning success, after exactly two plan
\* fetches, and fetches no SegmentKey twice: a segment inserted before the
\* failure is a hit after the restart.
C6_RetryOnceThenSuccess ==
    (read_io_type = "SEG_CACHE" /\ Ended /\ ret = 0
        /\ hist.get_failures = 1 /\ hist.other_faults = 0)
    => /\ pc = "returned"
       /\ req.error = 0
       /\ Len(hist.plan_reqs) = 2
       /\ NoDup(hist.seg_gets)

C7_WitnessFirstRead ==
    /\ read_io_type = "FILE_CACHE"
    /\ Returned
    /\ req.error = 0
    /\ req.offset = 0
    /\ hist.lines_before = {}
    /\ hist.fetched = {0, 1}

\* C8: the plan read_no_cache fetches to cache it under the InodeKey is
\* asked for with offset 0 and length the known file size.
C8_WholeFilePlanRequested ==
    read_io_type = "FILE_CACHE" =>
        \A k \in 1..Len(hist.plan_reqs) : hist.plan_reqs[k] = << 0, fc.size >>

\* C9: under FileCache the plan is inserted under the InodeKey at most
\* once, no READPLAN request is sent while the cache holds the plan, and
\* free_read_plan never runs on the cached plan.
C9_PlanFetchedAtMostOnce ==
    /\ cache.plan_inserts <= 1
    /\ hist.reqs_with_plan = 0
    /\ hist.plan_before => hist.plan_reqs = << >>
    /\ ~hist.freed_cached

\* a later call missed a cache line and was served from the cached plan
C9_Witness ==
    /\ read_io_type = "FILE_CACHE"
    /\ Returned
    /\ req.error = 0
    /\ hist.plan_before
    /\ hist.fetched # {}
    /\ hist.gets # {}
    /\ hist.plan_reqs = << >>

\* the last get_read_plan got its request out and its header in
HeaderRead ==
    /\ hist.plan_reqs # << >>
    /\ hist.last_resp.werr = 0
    /\ hist.last_resp.herr = 0

\* C10: get_read_plan returns the header's error code when the header
\* reports one, and EIO when the header reports success with payload size
\* 0; in both cases it reads no payload, decodes no plan and leaves *rpp
\* NULL.
C10_HeaderErrorAndEmptyPayload ==
    /\ (HeaderRead /\ hist.last_resp.hdr.error # 0)
         => /\ hist.last_plan.ret = hist.last_resp.hdr.error
            /\ ~hist.last_plan.payload_read
            /\ ~hist.last_plan.decoded
            /\ hist.last_plan.rpp = << >>
            /\ ~hist.last_plan.panic
    /\ (HeaderRead /\ hist.last_resp.hdr.error = 0
           /\ hist.last_resp.hdr.io_size = 0)
         => /\ hist.last_plan.ret = EIO
            /\ ~hist.last_plan.payload_read
            /\ ~hist.last_plan.decoded
            /\ hist.last_plan.rpp = << >>
            /\ ~hist.last_plan.panic

\* a success header with payload size 0 ended the call with EIO
C10_Witness ==
    /\ HeaderRead
    /\ hist.last_resp.hdr.error = 0
    /\ hist.last_resp.hdr.io_size = 0
    /\ Returned
    /\ req.error = EIO
    /\ rp = << >>

\* the codes after which the process may be ended
FatalCodes == {EPIPE, ENODEV, EBADF}

\* the code of the transport failure the last get_read_plan met, 0 for none
TransportCode ==
    IF hist.last_resp.werr # 0 THEN -hist.last_resp.werr
    ELSE IF hist.last_resp.herr # 0 THEN -hist.last_resp.herr
    ELSE IF hist.last_plan.payload_read THEN -hist.last_resp.perr
    ELSE 0

\* C11: the process is ended during a plan fetch only after a transport
\* failure whose code is EPIPE, ENODEV or EBADF; after a failure of the
\* header read or of the payload read with any other code the process is not
\* ended and get_read_plan returns an error.
C11_AbortOnlyOnFatalCodes ==
    /\ pc = "aborted" => TransportCode \in FatalCodes
    /\ (hist.plan_reqs # << >> /\ hist.last_resp.werr = 0
           /\ TransportCode # 0 /\ TransportCode \notin FatalCodes)
         => (~hist.last_plan.panic /\ hist.last_plan.ret # 0)

\* C12: after a cache lookup (plan, segment, size or line) ended in an error
\* other than ENOENT, the call makes no plan fetch, stat call, GET or cache
\* insert and returns with that error code in the request's error field; and
\* no insert is made under a key the cache already held, so that only a miss
\* leads to a fetch and insert.
C12_CacheErrorEndsCall ==
    /\ hist.cache_err # 0 =>
         /\ pc \in {"returned", "fc_after_sub"}
         /\ hist.ops = hist.ops_at_err
         /\ Returned => req.error = hist.cache_err
    /\ hist.hit_inserts = 0

\* an error of the InodeKey lookup inside a FileCache sub-request reached
\* the caller
C12_Witness ==
    /\ Returned
    /\ hist.cache_err_at = "plan"
    /\ req.error = hist.cache_err
    /\ req.error \in CacheErrs
    /\ hist.fetched # {}

\* an error of the SegmentKey lookup reached the caller after a direct GET
C12_WitnessSegment ==
    /\ Returned
    /\ hist.cache_err_at = "segment"
    /\ req.error \in CacheErrs
    /\ hist.seg_gets # << >>

\* the sizes of the first n records summed
RECURSIVE SizesBefore(_, _)
SizesBefore(records, n) ==
    IF n = 0 THEN 0 ELSE records[n].size + SizesBefore(records, n - 1)

\* C13 (the uint64_t fields of the decoded plan are compared as their eight
\* bytes): the plan buf_to_readplan decodes from an encoded payload has, for
\* every record i, the encoded path, the encoded object_start_offset and the
\* encoded size, and as logical offset the requested offset plus the sizes
\* of the records before i.
C13_DecodeInvertsEncoding ==
    dec.rp # << >> =>
        LET records == dec.payload.records
            plan == dec.rp[1]
        IN /\ plan.file_size = Bytes(dec.payload.file_size, 8)
           /\ Len(plan.ranges) = Len(records)
           /\ \A i \in 1..Len(records) :
                /\ plan.ranges[i].obj_path = records[i].obj_path
                /\ plan.ranges[i].obj_start = records[i].obj_start
                /\ plan.ranges[i].size = Bytes(records[i].size, 8)
                /\ plan.ranges[i].offset =
                       Bytes(dec.offset + SizesBefore(records, i - 1), 8)

\* the byte the file's extents give for logical position pos: byte
\* obj_start + (pos - extent start) of the extent's object
RECURSIVE FileByte(_, _)
FileByte(recs, pos) ==
    IF recs = << >> THEN Byte("none", pos)
    ELSE IF pos < Head(recs).size
    THEN Byte(Head(recs).obj_path, Head(recs).obj_start + pos)
    ELSE FileByte(Tail(recs), pos - Head(recs).size)

\* C14: every cache line held under a FileSegKey has, at every position of
\* the line below the file size that is not in a hole, the file's byte; and
\* a FileCache read served from cached lines alone returns the file's bytes
\* at those positions.
C14_CachedLineIsComplete ==
    /\ \A seg \in DOMAIN cache.lines :
         \A k \in 0..(CacheLineSize - 1) :
            LET pos == seg * CacheLineSize + k
            IN (pos < FileSize /\ PathAt(layout, pos) # "")
               => cache.lines[seg][k + 1] = FileByte(layout, pos)
    /\ (read_io_type = "FILE_CACHE" /\ Returned /\ req.error = 0
           /\ hist.fetched = {})
         => \A k \in 1..Len(req.data) :
               LET pos == req.offset + k - 1
               IN (pos < FileSize /\ PathAt(layout, pos) # "")
                  => req.data[k] = FileByte(layout, pos)

\* C15: under SegmentCache a step in which the direct GET fails discards
\* the IO plan, leaves the request's error field alone and goes to the plan
\* fetch, whatever the number of failures before it; and a call that has
\* returned reports success, the error of the plan fetch that ended it, or
\* the cache-service error that ended it.
C15_GetFailureRestartsCall ==
    /\ [][hist'.get_failures > hist.get_failures
            => (pc' = "sc_fetch" /\ io' = << >> /\ req' = req
                /\ cache' = cache)]_vars
    /\ []((read_io_type = "SEG_CACHE" /\ Returned /\ req.error # 0)
            => \/ (hist.cache_err # 0 /\ req.error = hist.cache_err)
               \/ (hist.last_plan.ret # 0 /\ req.error = hist.last_plan.ret))

\* a call returned success after the direct GET had failed twice and the
\* plan had been fetched three times
C15_Witness ==
    /\ read_io_type = "SEG_CACHE"
    /\ Returned
    /\ req.error = 0
    /\ hist.get_failures >= 2
    /\ Len(hist.plan_reqs) = hist.get_failures + 1

\* the (object, range) pairs of the IO plan in hand with a byte to resolve
PlanRanges ==
    {<< i, idx >> \in (1..Len(io[1].objs)) \X (1..MaxLength + 1) :
        /\ idx <= Len(io[1].objs[i].ranges)
        /\ io[1].objs[i].ranges[idx].start < io[1].objs[i].ranges[idx].end}

\* C16: a SegmentCache call never faults on its walk over the IO plan, and
\* when the walk is over every range of every object of the plan has been
\* resolved, each once.
C16_EveryObjectResolved ==
    /\ pc # "crashed"
    /\ pc = "sc_done" =>
         /\ NoDup(hist.resolved)
         /\ SeqToSet(hist.resolved) = PlanRanges

\* C17: no plan is released twice, and when a call has returned every IO
\* plan it created is released and so is every read plan, but for the one
\* read plan a FileCache call inserted into the cache.
C17_PlansReleasedBeforeReturn ==
    /\ hist.live_rp >= 0
    /\ hist.live_io >= 0
    /\ Returned =>
         /\ hist.live_io = 0
         /\ hist.live_rp =
               IF read_io_type = "FILE_CACHE" /\ ~hist.plan_before
                  /\ cache.plan # << >>
               THEN 1 ELSE 0

\* C18: in the IO plan in hand no two objects have the same path; the
\* ranges of an object are in the order their mappings were met, which is
\* the order of their logical offsets; and the objects are in the reverse
\* order of their first mappings, a new object being put at the head.
C18_OneObjectPerPath ==
    io # << >> =>
        LET objs == io[1].objs
        IN /\ \A a, b \in 1..Len(objs) :
                objs[a].obj_path = objs[b].obj_path => a = b
           /\ \A k \in 1..Len(objs) :
                /\ objs[k].ranges # << >>
                /\ objs[k].obj_num = ObjNum(objs[k].obj_path)
                /\ \A a, b \in 1..Len(objs[k].ranges) :
                     a < b => objs[k].ranges[a].logical
                               <= objs[k].ranges[b].logical
           /\ \A a, b \in 1..Len(objs) :
                a < b => objs[a].ranges[1].logical >= objs[b].ranges[1].logical

\* a plan of two objects, one of them with the ranges of two adjacent
\* mappings
C18_WitnessAdjacent ==
    /\ io # << >>
    /\ Len(io[1].objs) = 2
    /\ Len(io[1].objs[2].ranges) = 2
    /\ io[1].objs[2].ranges[1].logical + io[1].objs[2].ranges[1].data_size
          = io[1].objs[2].ranges[2].logical
    /\ io[1].objs[2].ranges[1].data_size > 0

\* a plan of two objects, one of them with two ranges whose mappings have
\* a mapping of the other object between them
C18_Witness ==
    /\ io # << >>
    /\ Len(io[1].objs) = 2
    /\ \E k \in 1..2 :
         /\ Len(io[1].objs[k].ranges) = 2
         /\ io[1].objs[k].ranges[1].logical
               < io[1].objs[3 - k].ranges[1].logical
         /\ io[1].objs[3 - k].ranges[1].logical
               < io[1].objs[k].ranges[2].logical

\* C19: every range of the IO plan in hand has positive length, so that an
\* object holding a connection has a byte to fetch: a mapping that ends at
\* or before the requested offset adds nothing to the plan.
C19_NoRangeBeforeWindow ==
    io # << >> =>
        \A k \in 1..Len(io[1].objs) :
            /\ \A a \in 1..Len(io[1].objs[k].ranges) :
                 /\ io[1].objs[k].ranges[a].data_size > 0
                 /\ io[1].objs[k].ranges[a].start < io[1].objs[k].ranges[a].end
                 /\ io[1].objs[k].ranges[a].logical >= Cur.offset
            /\ io[1].objs[k].fd # 0 =>
                 \E a \in 1..Len(io[1].objs[k].ranges) :
                    io[1].objs[k].ranges[a].data_size > 0

\* the objects of the fill whose GET request was sent and whose response
\* was not read, the object whose response read failed not counted
Outstanding ==
    {k \in hist.sent :
        /\ k \notin hist.read
        /\ ~(hist.first_err # 0 /\ k = fill.i)}

\* C20: when the fill has given its connections back, no object of the
\* plan has a GET request sent and its response unread.
C20_NoOutstandingResponseAtRelease ==
    pc = "nc_finish" => Outstanding = {}

\* the caller is inside csw_sock_get with no connection left in the pool
BlockedOnPool ==
    /\ pc = "fill_acquire"
    /\ fill.i <= Len(io[1].objs)
    /\ ~IsHole(io[1].objs[fill.i])
    /\ pool = {}

\* C21: a BlobFetcher fill that has begun reaches its release phase and
\* returns to read_no_cache.
C21_FillTerminates == (pc = "fill_acquire") ~> (pc = "nc_finish")

====
